---------------------------- MODULE Spec2Model ----------------------------
(* A model of registration-api/main.go: the HTTP registration handler      *)
(* (register), the normalisation of the inbound wrapper                    *)
(* (processC2SWrapper), the locked publish path (sendToZMQ) and the        *)
(* SIGHUP-driven configuration reload (setupReloadHandler, loadNewConfig,  *)
(* setupAuth).                                                             *)
EXTENDS Integers, Sequences, FiniteSets, TLC

(***************************************************************************)
(* Program constants                                                       *)
(***************************************************************************)
regIDLen == 16
SecretLength == 32
MinimumRequestLength == SecretLength + 1

StatusNoContent == 204
StatusBadRequest == 400
StatusMethodNotAllowed == 405
StatusInternalServerError == 500

(***************************************************************************)
(* Bounds of the model                                                     *)
(***************************************************************************)
\* shared secrets of every length 0..MaxSecretLen are tried (and SecretLength)
MaxSecretLen == 9
\* SIGHUPs delivered to the process in one run
MaxSignals == 2

(***************************************************************************)
(* Optional values: a nil pointer or nil slice is None, a set one Some(v). *)
(***************************************************************************)
None == << >>
Some(v) == << v >>
IsNil(x) == x = None
Val(x) == x[1]

\* len(b) of a possibly nil byte slice
len(b) == IF IsNil(b) THEN 0 ELSE Len(Val(b))

\* the bytes (b+1) % 256, (b+2) % 256, ... : n distinct-looking bytes
MkBytes(n, b) == [i \in 1..n |-> (b + i) % 256]

(***************************************************************************)
(* pb.C2SWrapper and its nil-safe getters                                  *)
(***************************************************************************)
RegistrationSources == {"Unspecified", "Detector", "API", "DetectorPrescan"}

C2SWrapper(secret, source, address, payload) ==
    [SharedSecret |-> secret, RegistrationSource |-> source,
     RegistrationAddress |-> address, RegistrationPayload |-> payload]

GetSharedSecret(m) == IF IsNil(m) THEN None ELSE Val(m).SharedSecret

GetRegistrationSource(m) ==
    IF IsNil(m) \/ IsNil(Val(m).RegistrationSource) THEN "Unspecified"
    ELSE Val(Val(m).RegistrationSource)

GetRegistrationAddress(m) == IF IsNil(m) THEN None ELSE Val(m).RegistrationAddress

GetRegistrationPayload(m) == IF IsNil(m) THEN None ELSE Val(m).RegistrationPayload

(***************************************************************************)
(* proto.Marshal / proto.Unmarshal: the wire form lists the fields that    *)
(* are set, in field order; a field that is nil is not on the wire.        *)
(***************************************************************************)
FieldOrder == << "SharedSecret", "RegistrationPayload", "RegistrationSource",
                 "RegistrationAddress" >>

RECURSIVE MarshalFrom(_, _)
MarshalFrom(m, i) ==
    IF i > Len(FieldOrder) THEN << >>
    ELSE LET f == FieldOrder[i]
         IN  IF IsNil(m[f]) THEN MarshalFrom(m, i + 1)
             ELSE << << f, Val(m[f]) >> >> \o MarshalFrom(m, i + 1)

Marshal(m) == MarshalFrom(m, 1)

\* the value of field f on the wire, None when the wire does not carry it
WireField(wire, f) ==
    IF \E i \in 1..Len(wire) : wire[i][1] = f
    THEN Some(wire[CHOOSE i \in 1..Len(wire) : wire[i][1] = f][2])
    ELSE None

Unmarshal(wire) ==
    [f \in {FieldOrder[i] : i \in 1..Len(FieldOrder)} |-> WireField(wire, f)]

(***************************************************************************)
(* hex.EncodeToString: two hex digits (0..15) per byte, high digit first.  *)
(***************************************************************************)
HexEncode(b) ==
    [i \in 1..(2 * Len(b)) |->
        IF i % 2 = 1 THEN b[(i + 1) \div 2] \div 16 ELSE b[i \div 2] % 16]

(***************************************************************************)
(* server.processC2SWrapper                                                *)
(***************************************************************************)
\* what the call returns: the marshalled message and a nil error, or no
\* message and an error; panicked when the slice for the log line is out of
\* range; logged is the hex prefix and source of the log line.
ProcessResult(out, err, logged, panicked) ==
    [out |-> out, err |-> err, logged |-> logged, panicked |-> panicked]

NoError == "nil"
ErrNilWrapper == "unable to process nil C2SWrapper"
ErrSharedSecret == "shared secret undefined or insufficient length"

\* lines 145-147: the shared secret is long enough; the first variant
\* checks nothing, the second lets a secret one byte shorter through
SecretLongEnoughAny(m) == TRUE
SecretLongEnoughOffByOne(m) == ~ (len(GetSharedSecret(m)) < regIDLen \div 2 - 1)
SecretLongEnough(m) == ~ (len(GetSharedSecret(m)) < regIDLen \div 2)

\* lines 151-157; the first variant copies the source without defaulting
OutputSourcePassThrough(m) == GetRegistrationSource(m)
OutputSource(m) ==
    IF GetRegistrationSource(m) = "Unspecified" THEN "API"
    ELSE GetRegistrationSource(m)

\* lines 161-166
OutputAddress(m, clientAddr) ==
    IF IsNil(GetRegistrationAddress(m)) \/ GetRegistrationSource(m) = "API"
    THEN clientAddr
    ELSE GetRegistrationAddress(m)

\* lines 139, 168-169; the first variant drops the payload
OutputWrapperNoPayload(m, clientAddr) ==
    C2SWrapper(GetSharedSecret(m), Some(OutputSource(m)),
               OutputAddress(m, clientAddr), None)
OutputWrapper(m, clientAddr) ==
    C2SWrapper(GetSharedSecret(m), Some(OutputSource(m)),
               OutputAddress(m, clientAddr), GetRegistrationPayload(m))

processC2SWrapper(m, clientAddr) ==
    IF IsNil(m) THEN ProcessResult(None, ErrNilWrapper, None, FALSE)
    ELSE IF ~ SecretLongEnough(m)
    THEN ProcessResult(None, ErrSharedSecret, None, FALSE)
    ELSE LET payload == OutputWrapper(m, clientAddr)
             hexSecret == HexEncode(IF IsNil(payload.SharedSecret) THEN << >>
                                    ELSE Val(payload.SharedSecret))
         IN  IF Len(hexSecret) < regIDLen
             THEN ProcessResult(None, NoError, None, TRUE)
             ELSE ProcessResult(Some(Marshal(payload)), NoError,
                    Some(<< SubSeq(hexSecret, 1, regIDLen),
                            Val(payload.RegistrationSource) >>), FALSE)


(***************************************************************************)
(* Request address strings and the net package's answers for them          *)
(***************************************************************************)
AddrStrings == {"203.0.113.5", "203.0.113.5:4433", "2001:db8::1",
                "[2001:db8::1]:4433", "example.com:4433", "unknown", ":4433"}

\* net.SplitHostPort: the host and a nil error, or an error
SplitHostPort(s) ==
    CASE s = "203.0.113.5:4433"   -> [host |-> "203.0.113.5", err |-> FALSE]
      [] s = "[2001:db8::1]:4433" -> [host |-> "2001:db8::1", err |-> FALSE]
      [] s = "example.com:4433"   -> [host |-> "example.com", err |-> FALSE]
      [] s = ":4433"              -> [host |-> "", err |-> FALSE]
      [] OTHER                    -> [host |-> "", err |-> TRUE]

\* net.ParseIP: the 16-byte form of a textual address, nil otherwise
ParseIP(s) ==
    CASE s = "203.0.113.5" ->
            Some([i \in 1..16 |-> CASE i <= 10 -> 0 [] i <= 12 -> 255
                                    [] i = 13 -> 203 [] i = 14 -> 0
                                    [] i = 15 -> 113 [] OTHER -> 5])
      [] s = "2001:db8::1" ->
            Some([i \in 1..16 |-> CASE i = 1 -> 32 [] i = 2 -> 1 [] i = 3 -> 13
                                    [] i = 4 -> 184 [] i = 16 -> 1 [] OTHER -> 0])
      [] OTHER -> None

\* net.IP.To16: a 16-byte address as it is, nil for any other length
To16(ip) == IF len(ip) = 16 THEN ip ELSE None

\* parseIP returns *net.IP: None is the nil pointer, Some(ip) a pointer to
\* ip, which is itself nil when net.ParseIP(host) failed
parseIP(addrPort) ==
    LET hp == SplitHostPort(addrPort)
    IN  IF hp.err \/ hp.host = ""
        THEN LET addr == ParseIP(addrPort)
             IN  IF IsNil(addr) THEN None ELSE Some(addr)
        ELSE Some(ParseIP(hp.host))

\* getRemoteAddr: the X-Forwarded-For header is modelled as the list of its
\* comma-separated entries, already trimmed; the empty list is no header
getRemoteAddr(rq) ==
    IF rq.XForwardedFor # << >> THEN rq.XForwardedFor[1] ELSE rq.RemoteAddr

\* lines 104-108
ClientAddrBytes(requestIP) ==
    LET clientAddr == parseIP(requestIP)
    IN  IF ~ IsNil(clientAddr) THEN To16(Val(clientAddr))
        ELSE Some([i \in 1..16 |-> 0])

(***************************************************************************)
(* HTTP requests                                                           *)
(***************************************************************************)
\* a body: whether reading it fails, whether it is a well-formed protobuf,
\* and the fields it carries
Body(readErr, wellFormed, wire) ==
    [readErr |-> readErr, wellFormed |-> wellFormed, wire |-> wire]

Request(method, contentLength, xff, remoteAddr, body) ==
    [Method |-> method, ContentLength |-> contentLength, XForwardedFor |-> xff,
     RemoteAddr |-> remoteAddr, Body |-> body]

\* the inbound wrappers tried on processC2SWrapper
Secrets ==
    {None} \cup {Some(MkBytes(n, b)) : n \in (0..MaxSecretLen) \cup {SecretLength},
                                       b \in {0, 170}}
InSources == {None} \cup {Some(s) : s \in RegistrationSources}
InAddresses == {None, Some(<< >>), Some(<< 8, 8, 8, 8 >>), Some(MkBytes(16, 32))}
InPayloads == {None, Some(<< "ClientToStation", 1 >>)}

Inbounds ==
    {C2SWrapper(sec, src, a, p) :
        sec \in Secrets, src \in InSources, a \in InAddresses, p \in InPayloads}

\* client addresses handed to processC2SWrapper
ClientAddrs == {ClientAddrBytes(s) : s \in AddrStrings} \cup {Some(<< 127, 0, 0, 1 >>)}

(***************************************************************************)
(* State                                                                   *)
(***************************************************************************)
VARIABLES
    alive,       \* the process has not exited (log.Fatalln exits it)
    mutex,       \* server.Mutex: "free", or who holds it
    h,           \* per request: where register is, and its locals
    signalChan,  \* signals buffered in signalChan (capacity 1)
    signals,     \* SIGHUPs delivered to the process so far
    listener,    \* where the reload goroutine is
    config,      \* server.config
    auth_init,   \* the auth subsystem is started (AuthStart without AuthStop)
    sock,        \* the PUB socket: the port it is bound to, its CURVE option
    reloads,     \* calls of loadNewConfig: how many begun, how many returned
    call         \* a direct call of processC2SWrapper: arguments and result

vars == << alive, mutex, h, signalChan, signals, listener, config, auth_init,
           sock, reloads, call >>

serverVars ==
    << signalChan, signals, listener, config, auth_init, sock, reloads >>

Reqs == {"r1", "r2"}

\* a request not yet received
Fresh ==
    [pc |-> "idle", req |-> None, in |-> None, payload |-> None,
     clientAddrBytes |-> None, zmqPayload |-> None, err |-> NoError,
     calls |-> 0, sent |-> None, status |-> 0, text |-> ""]

(***************************************************************************)
(* server.register, one action per step of the handler                     *)
(***************************************************************************)
\* the HTTP server hands request rq to a new goroutine running register
Receive(r, rq) ==
    /\ alive
    /\ h[r].pc = "idle"
    /\ h' = [h EXCEPT ![r].pc = "method", ![r].req = Some(rq)]
    /\ UNCHANGED << alive, mutex, serverVars, call >>

\* any request of the set rqs may arrive
Arrive(r, rqs) == h[r].pc = "idle" /\ \E rq \in rqs : Receive(r, rq)

\* w.WriteHeader(code); return
Reply(r, code) == [h EXCEPT ![r].pc = "done", ![r].status = code]

\* http.Error(w, text, code); return
Error(r, text, code) ==
    [h EXCEPT ![r].pc = "done", ![r].status = code, ![r].text = text]

\* lines 78-82
CheckMethod(r) ==
    /\ alive
    /\ h[r].pc = "method"
    /\ h' = IF Val(h[r].req).Method # "POST"
            THEN Reply(r, StatusMethodNotAllowed)
            ELSE [h EXCEPT ![r].pc = "length"]
    /\ UNCHANGED << alive, mutex, serverVars, call >>

\* lines 77, 84-88; the first variant uses the secret floor plus one
TooShortForSecretFloor(rq) == rq.ContentLength < regIDLen \div 2 + 1
TooShort(rq) == rq.ContentLength < MinimumRequestLength

CheckLength(r) ==
    /\ alive
    /\ h[r].pc = "length"
    /\ h' = IF TooShort(Val(h[r].req))
            THEN Error(r, "Payload too small", StatusBadRequest)
            ELSE [h EXCEPT ![r].pc = "read"]
    /\ UNCHANGED << alive, mutex, serverVars, call >>

\* lines 90-95
ReadBody(r) ==
    /\ alive
    /\ h[r].pc = "read"
    /\ h' = IF Val(h[r].req).Body.readErr
            THEN Error(r, "Failed to read request body", StatusBadRequest)
            ELSE [h EXCEPT ![r].pc = "decode", ![r].in = Some(Val(h[r].req).Body)]
    /\ UNCHANGED << alive, mutex, serverVars, call >>

\* lines 97-102
DecodeBody(r) ==
    /\ alive
    /\ h[r].pc = "decode"
    /\ h' = IF ~ Val(h[r].in).wellFormed
            THEN Error(r, "Failed to decode protobuf body", StatusBadRequest)
            ELSE [h EXCEPT ![r].pc = "addr",
                           ![r].payload = Some(Unmarshal(Val(h[r].in).wire))]
    /\ UNCHANGED << alive, mutex, serverVars, call >>

\* lines 69, 104-108
ParseClientAddr(r) ==
    /\ alive
    /\ h[r].pc = "addr"
    /\ h' = [h EXCEPT ![r].pc = "process",
                      ![r].clientAddrBytes =
                          Some(ClientAddrBytes(getRemoteAddr(Val(h[r].req))))]
    /\ UNCHANGED << alive, mutex, serverVars, call >>

\* lines 110-115; a panic in processC2SWrapper ends the handler without a
\* status (net/http recovers it and drops the connection)
Process(r) ==
    /\ alive
    /\ h[r].pc = "process"
    /\ LET res == processC2SWrapper(h[r].payload, Val(h[r].clientAddrBytes))
       IN  h' = IF res.panicked THEN [h EXCEPT ![r].pc = "done"]
                ELSE IF res.err # NoError
                THEN [Reply(r, StatusInternalServerError) EXCEPT ![r].err = res.err]
                ELSE [h EXCEPT ![r].pc = "accept", ![r].zmqPayload = res.out]
    /\ UNCHANGED << alive, mutex, serverVars, call >>

\* line 117: err = s.messageAccepter(zmqPayload), which is s.sendToZMQ
Accept(r) ==
    /\ alive
    /\ h[r].pc = "accept"
    /\ h' = [h EXCEPT ![r].pc = "lock", ![r].calls = @ + 1]
    /\ UNCHANGED << alive, mutex, serverVars, call >>

(***************************************************************************)
(* server.sendToZMQ                                                        *)
(***************************************************************************)
\* s.Lock() by who: blocks until the mutex is free; the first variant takes
\* it without waiting
LockNoWait(who) == mutex' = who
Lock(who) == mutex = "free" /\ mutex' = who

Unlock(who) == mutex = who /\ mutex' = "free"

\* line 131
SendLock(r) ==
    /\ alive
    /\ h[r].pc = "lock"
    /\ Lock(r)
    /\ h' = [h EXCEPT ![r].pc = "send"]
    /\ UNCHANGED << alive, serverVars, call >>

\* line 132: SendBytes with DONTWAIT takes the message or fails at once
\* (EAGAIN); it never waits
SendBytes(r, ok) ==
    /\ alive
    /\ h[r].pc = "send"
    /\ h' = [h EXCEPT ![r].pc = "unlock",
                      ![r].sent = Some(IF ok THEN "ok" ELSE "EAGAIN")]
    /\ UNCHANGED << alive, mutex, serverVars, call >>

\* lines 133-135; the first variant returns without s.Unlock()
SendReturnsLocked(r) ==
    /\ alive
    /\ h[r].pc = "unlock"
    /\ h' = [h EXCEPT ![r].pc = "result",
                      ![r].err = IF Val(h[r].sent) = "ok" THEN NoError
                                 ELSE Val(h[r].sent)]
    /\ UNCHANGED << alive, mutex, serverVars, call >>

SendUnlock(r) ==
    /\ alive
    /\ h[r].pc = "unlock"
    /\ Unlock(r)
    /\ h' = [h EXCEPT ![r].pc = "result",
                      ![r].err = IF Val(h[r].sent) = "ok" THEN NoError
                                 ELSE Val(h[r].sent)]
    /\ UNCHANGED << alive, serverVars, call >>

\* lines 118-127; the first variant ignores the error
SendResultStatusAlways204(err) == StatusNoContent
SendResultStatus(err) ==
    IF err # NoError THEN StatusInternalServerError ELSE StatusNoContent

\* a variant of Respond that calls messageAccepter again after an error
RespondOrRetry(r) ==
    /\ alive
    /\ h[r].pc = "result"
    /\ h' = IF h[r].err # NoError /\ h[r].calls < 2
            THEN [h EXCEPT ![r].pc = "accept"]
            ELSE Reply(r, SendResultStatus(h[r].err))
    /\ UNCHANGED << alive, mutex, serverVars, call >>

Respond(r) ==
    /\ alive
    /\ h[r].pc = "result"
    /\ h' = Reply(r, SendResultStatus(h[r].err))
    /\ UNCHANGED << alive, mutex, serverVars, call >>

(***************************************************************************)
(* Configuration files the process may find                                *)
(***************************************************************************)
Config(apiPort, zmqPort, authType) ==
    [APIPort |-> apiPort, ZMQPort |-> zmqPort, AuthType |-> authType]

Configs ==
    {Config(p[1], p[2], a) : p \in {<< 8080, 5591 >>, << 8081, 5592 >>},
                             a \in {"CURVE", "NONE"}}

(***************************************************************************)
(* server.setupReloadHandler: signal delivery and the listening goroutine  *)
(***************************************************************************)
\* the runtime delivers a SIGHUP: a non-blocking send on signalChan, whose
\* buffer holds one signal (line 179); the signal is dropped when it is full;
\* the first variant is an unbuffered channel, which takes a signal only
\* while the goroutine waits to receive
SignalUnbuffered ==
    /\ alive
    /\ signals < MaxSignals
    /\ signals' = signals + 1
    /\ signalChan' = IF signalChan < 1 /\ listener = "recv" THEN signalChan + 1
                                                            ELSE signalChan
    /\ UNCHANGED << alive, mutex, h, listener, config, auth_init, sock, call, reloads >>

Signal ==
    /\ alive
    /\ signals < MaxSignals
    /\ signals' = signals + 1
    /\ signalChan' = IF signalChan < 1 THEN signalChan + 1 ELSE signalChan
    /\ UNCHANGED << alive, mutex, h, listener, config, auth_init, sock, call, reloads >>

\* lines 189-190: <-signalChan, then the call of loadNewConfig; the first
\* variant takes a signal and starts a reload wherever the last one is
ListenerRecvAnytime ==
    /\ alive
    /\ signalChan > 0
    /\ signalChan' = signalChan - 1
    /\ listener' = "lock"
    /\ reloads' = [reloads EXCEPT !.begun = @ + 1]
    /\ UNCHANGED << alive, mutex, h, signals, config, auth_init, sock, call >>

ListenerRecv ==
    /\ alive
    /\ listener = "recv"
    /\ signalChan > 0
    /\ signalChan' = signalChan - 1
    /\ listener' = "lock"
    /\ reloads' = [reloads EXCEPT !.begun = @ + 1]
    /\ UNCHANGED << alive, mutex, h, signals, config, auth_init, sock, call >>

\* log.Fatalln: the process exits where it is, the mutex still held; the
\* first variant ends the goroutine only and leaves the process running
FatalEndsGoroutineOnly ==
    /\ alive' = alive
    /\ listener' = "fatal"

Fatal ==
    /\ alive' = FALSE
    /\ listener' = "fatal"

(***************************************************************************)
(* server.loadNewConfig                                                    *)
(***************************************************************************)
\* line 199
ReloadLock ==
    /\ alive
    /\ listener = "lock"
    /\ Lock("reload")
    /\ listener' = "decode"
    /\ UNCHANGED << alive, h, signalChan, signals, config, auth_init, sock, call, reloads >>

\* lines 204-207: toml.DecodeFile fails, or fills the config fields; the
\* first variant also binds the socket to the port the new config names
DecodeConfigAndRebind(ok, cfg) ==
    /\ alive
    /\ listener = "decode"
    /\ IF ok THEN /\ config' = cfg
                  /\ sock' = [sock EXCEPT !.port = cfg.ZMQPort]
                  /\ listener' = "authStop"
                  /\ UNCHANGED alive
             ELSE /\ Fatal
                  /\ UNCHANGED << config, sock >>
    /\ UNCHANGED << mutex, h, signalChan, signals, auth_init, call, reloads >>

DecodeConfig(ok, cfg) ==
    /\ alive
    /\ listener = "decode"
    /\ IF ok THEN /\ config' = cfg
                  /\ listener' = "authStop"
                  /\ UNCHANGED alive
             ELSE /\ Fatal
                  /\ UNCHANGED config
    /\ UNCHANGED << mutex, h, signalChan, signals, auth_init, sock, call, reloads >>

\* line 210: zmq.AuthStop(); the first variant goes on without stopping auth
AuthStopSkipped ==
    /\ alive
    /\ listener = "authStop"
    /\ auth_init' = auth_init
    /\ listener' = "setupAuth"
    /\ UNCHANGED << alive, mutex, h, signalChan, signals, config, sock, call, reloads >>

AuthStop ==
    /\ alive
    /\ listener = "authStop"
    /\ auth_init' = FALSE
    /\ listener' = "setupAuth"
    /\ UNCHANGED << alive, mutex, h, signalChan, signals, config, sock, call, reloads >>

(***************************************************************************)
(* server.setupAuth, as loadNewConfig calls it                             *)
(***************************************************************************)
\* lines 217-225: nothing to do unless the auth type is CURVE; the private
\* key file is read, and a file that cannot be read ends the process
ReadPrivateKey(ok) ==
    /\ alive
    /\ listener = "setupAuth"
    /\ IF config.AuthType # "CURVE"
       THEN listener' = "unlock" /\ UNCHANGED alive
       ELSE IF ok THEN listener' = "authStart" /\ UNCHANGED alive
            ELSE Fatal
    /\ UNCHANGED << mutex, h, signalChan, signals, config, auth_init, sock, call, reloads >>

\* lines 227-236: zmq.AuthStart fails when auth is already started, and may
\* fail for want of a socket; then the allowed keys are added
AuthStart(ok) ==
    /\ alive
    /\ listener = "authStart"
    /\ IF ok /\ ~ auth_init
       THEN /\ auth_init' = TRUE
            /\ listener' = "serverCurve"
            /\ UNCHANGED alive
       ELSE /\ Fatal
            /\ UNCHANGED auth_init
    /\ UNCHANGED << mutex, h, signalChan, signals, config, sock, call, reloads >>

\* lines 238-241: sock.ServerAuthCurve
ServerAuthCurve(ok) ==
    /\ alive
    /\ listener = "serverCurve"
    /\ IF ok THEN /\ sock' = [sock EXCEPT !.curve = TRUE]
                  /\ listener' = "unlock"
                  /\ UNCHANGED alive
             ELSE /\ Fatal
                  /\ UNCHANGED sock
    /\ UNCHANGED << mutex, h, signalChan, signals, config, auth_init, call, reloads >>

\* line 200: the deferred s.Unlock(), then back to line 189
ReloadUnlock ==
    /\ alive
    /\ listener = "unlock"
    /\ Unlock("reload")
    /\ listener' = "recv"
    /\ reloads' = [reloads EXCEPT !.ended = @ + 1]
    /\ UNCHANGED << alive, h, signalChan, signals, config, auth_init, sock, call >>

(***************************************************************************)
(* A direct call of processC2SWrapper                                      *)
(***************************************************************************)
NoCall == [pc |-> "none", in |-> None, clientAddr |-> None, res |-> None]

CallProcess ==
    /\ call.pc = "call"
    /\ call' = [call EXCEPT !.pc = "returned",
                            !.res = Some(processC2SWrapper(call.in, call.clientAddr))]
    /\ UNCHANGED << alive, mutex, h, serverVars >>

(***************************************************************************)
(* The state after main has set the server up (lines 266-304): the config  *)
(* is loaded, setupAuth has run on the new socket, the socket is bound     *)
(***************************************************************************)
InitServer ==
    /\ alive = TRUE
    /\ mutex = "free"
    /\ signalChan = 0
    /\ signals = 0
    /\ listener = "recv"
    /\ reloads = [begun |-> 0, ended |-> 0]
    /\ config \in Configs
    /\ auth_init = (config.AuthType = "CURVE")
    /\ sock = [port |-> config.ZMQPort, curve |-> (config.AuthType = "CURVE")]

Init ==
    /\ InitServer
    /\ h = [r \in Reqs |-> Fresh]
    /\ call = NoCall

\* requests tried while reloads run
Wrapper(n, source, address) ==
    C2SWrapper(Some(MkBytes(n, 0)), source, address, Some(<< "ClientToStation", 1 >>))

GoodBody(w) == Body(FALSE, TRUE, Marshal(w))

FewRequests ==
    { Request("GET", 40, << >>, "203.0.113.5:4433", GoodBody(Wrapper(SecretLength, None, None))),
      Request("POST", 10, << >>, "203.0.113.5:4433", GoodBody(Wrapper(8, None, None))),
      Request("POST", 40, << >>, "203.0.113.5:4433", GoodBody(Wrapper(7, None, None))),
      Request("POST", 40, << "203.0.113.5" >>, "[2001:db8::1]:4433",
              GoodBody(Wrapper(SecretLength, None, None))),
      Request("POST", 40, << >>, "203.0.113.5:4433",
              GoodBody(Wrapper(8, Some("Detector"), Some(<< 8, 8, 8, 8 >>)))) }

Handler(r) ==
    \/ CheckMethod(r)
    \/ CheckLength(r)
    \/ ReadBody(r)
    \/ DecodeBody(r)
    \/ ParseClientAddr(r)
    \/ Process(r)
    \/ Accept(r)
    \/ SendLock(r)
    \/ \E ok \in BOOLEAN : SendBytes(r, ok)
    \/ SendUnlock(r)
    \/ Respond(r)

Reload ==
    \/ Signal
    \/ ListenerRecv
    \/ ReloadLock
    \/ \E ok \in BOOLEAN, cfg \in Configs : DecodeConfig(ok, cfg)
    \/ AuthStop
    \/ \E ok \in BOOLEAN : ReadPrivateKey(ok)
    \/ \E ok \in BOOLEAN : AuthStart(ok)
    \/ \E ok \in BOOLEAN : ServerAuthCurve(ok)
    \/ ReloadUnlock

Next ==
    \/ \E r \in Reqs : Arrive(r, FewRequests)
    \/ \E r \in Reqs : Handler(r)
    \/ Reload

Spec == Init /\ [][Next]_vars

(***************************************************************************)
(* One request through register, over many requests                        *)
(***************************************************************************)
ContentLengths == {-1, 10, MinimumRequestLength - 1, MinimumRequestLength, 40}

Bodies ==
    {Body(TRUE, TRUE, << >>), Body(FALSE, FALSE, << >>)} \cup
    {GoodBody(C2SWrapper(sec, src, a, Some(<< "ClientToStation", 1 >>))) :
        sec \in {None} \cup {Some(MkBytes(n, 0)) : n \in (0..MaxSecretLen) \cup {SecretLength}},
        src \in {None, Some("API"), Some("Detector")},
        a \in {None, Some(<< >>), Some(<< 8, 8, 8, 8 >>)}}

Requests ==
    {Request(m, n, a[1], a[2], b) :
        m \in {"POST", "GET"}, n \in ContentLengths, b \in Bodies,
        a \in {<< << >>, "203.0.113.5:4433" >>, << << >>, "[2001:db8::1]:4433" >>}
              \cup {<< << s >>, "203.0.113.5:4433" >> : s \in AddrStrings}}

InitRegister ==
    /\ InitServer
    /\ config = Config(8080, 5591, "CURVE")
    /\ h = [r \in Reqs |-> Fresh]
    /\ call = NoCall

NextRegister ==
    \/ Arrive("r1", Requests)
    \/ Handler("r1")

SpecRegister == InitRegister /\ [][NextRegister]_vars

(***************************************************************************)
(* processC2SWrapper called on every inbound wrapper and client address    *)
(***************************************************************************)
InitProcess ==
    /\ InitServer
    /\ config = Config(8080, 5591, "CURVE")
    /\ h = [r \in Reqs |-> Fresh]
    /\ call \in [pc : {"call"}, in : {None} \cup {Some(w) : w \in Inbounds},
                 clientAddr : ClientAddrs, res : {None}]

NextProcess == CallProcess

SpecProcess == InitProcess /\ [][NextProcess]_vars

(***************************************************************************)
(* Runs in which no reload fails, under the scheduling Go gives: a         *)
(* goroutine that can take a step takes one (weak fairness), and a         *)
(* goroutine waiting in Lock is not passed over for ever (sync.Mutex hands *)
(* the mutex to a starving waiter: strong fairness of the two Lock steps). *)
(* Requests and signals arrive as the environment pleases.                 *)
(***************************************************************************)
LiveRequests ==
    { Request("POST", 40, << >>, "203.0.113.5:4433",
              GoodBody(Wrapper(SecretLength, None, None))) }

\* the configuration file read in these runs: CURVE authentication, so that a
\* reload takes every step of loadNewConfig and setupAuth
LiveConfigs == {cfg \in Configs : cfg.APIPort = 8080 /\ cfg.AuthType = "CURVE"}

ReloadNoFail ==
    \/ ListenerRecv
    \/ ReloadLock
    \/ \E cfg \in LiveConfigs : DecodeConfig(TRUE, cfg)
    \/ AuthStop
    \/ ReadPrivateKey(TRUE)
    \/ AuthStart(TRUE)
    \/ ServerAuthCurve(TRUE)
    \/ ReloadUnlock

NextLive ==
    \/ \E r \in Reqs : Arrive(r, LiveRequests)
    \/ \E r \in Reqs : Handler(r)
    \/ Signal
    \/ ReloadNoFail

Fairness ==
    /\ \A r \in Reqs : WF_vars(Handler(r)) /\ SF_vars(SendLock(r))
    /\ WF_vars(ReloadNoFail)
    /\ SF_vars(ReloadLock)

InitLive == Init /\ config \in LiveConfigs

SpecLive == InitLive /\ [][NextLive]_vars /\ Fairness

(***************************************************************************)
(* Properties                                                              *)
(***************************************************************************)
\* the reload holds, or died holding, the mutex
ReloadInProgress ==
    listener \in {"decode", "authStop", "setupAuth", "authStart", "serverCurve",
                  "unlock", "fatal"}

\* request r is inside sendToZMQ's critical section
Sending(r) == h[r].pc \in {"send", "unlock"}

\* C1: a send (the transmit of sendToZMQ) and a reload (loadNewConfig from
\* taking the mutex to releasing it, or to the fatal exit) are never in
\* progress at the same time.
C1_SendExcludesReload == \A r \in Reqs : ~ (Sending(r) /\ ReloadInProgress)

\* a send waits for the mutex while the reload is between AuthStop and the
\* reinstallation of the auth state
C1_Witness ==
    \E r \in Reqs : h[r].pc = "lock" /\ listener = "setupAuth" /\ mutex = "reload"

\* C2: a request has status 204 only when its one send was made and the
\* socket took the message without error.
C2_NoContentOnlyAfterSend ==
    \A r \in Reqs :
        h[r].status = StatusNoContent =>
            /\ h[r].sent = Some("ok")
            /\ h[r].calls = 1
            /\ h[r].pc = "done"

C2_Witness == \E r \in Reqs : h[r].status = StatusNoContent /\ h[r].sent = Some("ok")

\* the direct call has returned, and what it returned
Returned == call.pc = "returned"
Res == Val(call.res)
Accepted == Returned /\ Res.err = NoError /\ ~ Res.panicked /\ ~ IsNil(Res.out)
\* the forwarded message, decoded
Out == Unmarshal(Val(Res.out))

\* the bytes of a possibly nil slice
BytesOf(b) == IF IsNil(b) THEN << >> ELSE Val(b)

\* C3 (as claimed): for an accepted wrapper, when the output source is API
\* (given or defaulted) or the inbound address is absent, the output address
\* is the client address; otherwise it is the inbound address.
C3_AddressByOutputSource ==
    Accepted =>
        BytesOf(Out.RegistrationAddress) =
            IF Val(Out.RegistrationSource) = "API"
               \/ IsNil(Val(call.in).RegistrationAddress)
            THEN BytesOf(call.clientAddr)
            ELSE BytesOf(Val(call.in).RegistrationAddress)

\* the inbound source is unset: the field is nil, or holds Unspecified
SourceUnset(m) ==
    IsNil(m.RegistrationSource) \/ Val(m.RegistrationSource) = "Unspecified"

\* C4: for an accepted wrapper the output source is API when the inbound
\* source is unset, and the inbound source otherwise.
C4_SourceDefaultsToAPI ==
    Accepted =>
        Out.RegistrationSource =
            IF SourceUnset(Val(call.in)) THEN Some("API")
            ELSE Val(call.in).RegistrationSource

C4_Witness ==
    /\ Accepted
    /\ IsNil(Val(call.in).RegistrationSource)
    /\ Out.RegistrationSource = Some("API")

\* C5: for a non-nil wrapper whose shared secret has at least regIDLen/2
\* bytes the call succeeds, and the output carries the inbound shared secret
\* and payload unchanged.
C5_SecretAndPayloadPreserved ==
    (Returned /\ ~ IsNil(call.in)
              /\ len(Val(call.in).SharedSecret) >= regIDLen \div 2) =>
        /\ Accepted
        /\ Out.SharedSecret = Val(call.in).SharedSecret
        /\ Out.RegistrationPayload = Val(call.in).RegistrationPayload

C5_Witness ==
    /\ Accepted
    /\ len(Val(call.in).SharedSecret) = regIDLen \div 2
    /\ ~ IsNil(Val(call.in).RegistrationPayload)
    /\ Val(call.in).RegistrationSource = Some("Detector")
    /\ ~ IsNil(Val(call.in).RegistrationAddress)
    /\ Out.RegistrationPayload = Val(call.in).RegistrationPayload

\* a wrapper processC2SWrapper must refuse
Refused(m) == IsNil(m) \/ len(Val(m).SharedSecret) < regIDLen \div 2

\* processC2SWrapper returns an error and no message for every refused
\* wrapper, the nil one included, and every client address
ProcessRefuses ==
    \A m \in {None} \cup {Some(w) : w \in Inbounds}, a \in ClientAddrs :
        Refused(m) =>
            LET res == processC2SWrapper(m, a)
            IN  res.err # NoError /\ IsNil(res.out) /\ ~ res.panicked

\* C6: processC2SWrapper returns an error for a wrapper that is nil or whose
\* shared secret is shorter than regIDLen/2, and the handler of a request
\* carrying such a wrapper never calls messageAccepter.
C6_RefusedNeverSent ==
    /\ ProcessRefuses
    /\ \A r \in Reqs :
          (~ IsNil(h[r].payload) /\ Refused(h[r].payload)) =>
              /\ h[r].calls = 0
              /\ IsNil(h[r].sent)
              /\ IsNil(h[r].zmqPayload)
              /\ h[r].pc \in {"addr", "process", "done"}
              /\ h[r].pc = "done" => h[r].err = ErrSharedSecret

C6_Witness ==
    \E r \in Reqs :
        /\ h[r].pc = "done"
        /\ ~ IsNil(h[r].payload)
        /\ len(Val(h[r].payload).SharedSecret) = regIDLen \div 2 - 1
        /\ h[r].err = ErrSharedSecret
        /\ h[r].calls = 0

\* the body of rq decodes to a wrapper that processC2SWrapper refuses
WeakSecret(rq) ==
    /\ ~ rq.Body.readErr
    /\ rq.Body.wellFormed
    /\ Refused(Some(Unmarshal(rq.Body.wire)))

\* bad method, undersized, unreadable or malformed body, weak secret
ClientInputError(rq) ==
    \/ rq.Method # "POST"
    \/ rq.ContentLength < MinimumRequestLength
    \/ rq.Body.readErr
    \/ ~ rq.Body.wellFormed
    \/ WeakSecret(rq)

\* C7 (as claimed): every client input error, a weak secret included, is
\* answered with a 4xx status, and only a failed send with a 5xx status.
C7_ClientErrorsAre4xx ==
    \A r \in Reqs :
        (h[r].pc = "done" /\ h[r].status # 0) =>
            /\ ClientInputError(Val(h[r].req)) => h[r].status \in 400..499
            /\ h[r].status \in 500..599 => h[r].sent = Some("EAGAIN")

\* request r was turned away by the length check: 400 "Payload too small",
\* its body neither read nor decoded, nothing processed or sent
RejectedForLength(r) ==
    /\ h[r].pc = "done"
    /\ h[r].status = StatusBadRequest
    /\ h[r].text = "Payload too small"
    /\ IsNil(h[r].in) /\ IsNil(h[r].payload) /\ IsNil(h[r].zmqPayload)
    /\ h[r].calls = 0 /\ IsNil(h[r].sent)

\* request r is a POST that the length check has decided
LengthDecided(r) ==
    /\ h[r].pc \notin {"idle", "method", "length"}
    /\ Val(h[r].req).Method = "POST"

\* C8 (as claimed): a POST is rejected for length exactly when its content
\* length is below the minimum secret length processC2SWrapper accepts plus
\* one byte, so no POST carrying a wrapper valid for processC2SWrapper is
\* rejected for length.
C8_FloorIsProcessMinimumPlusOne ==
    \A r \in Reqs :
        LengthDecided(r) =>
            /\ RejectedForLength(r) <=>
                   Val(h[r].req).ContentLength < regIDLen \div 2 + 1
            /\ ~ WeakSecret(Val(h[r].req)) /\ Val(h[r].req).Body.wellFormed
                   => ~ RejectedForLength(r)

\* C8 (amended): a POST is rejected for length, with 400 and before its body
\* is read, decoded, processed or sent, exactly when its content length is
\* below SecretLength + 1 = 33 bytes.
C8_FloorIsSecretLengthPlusOne ==
    \A r \in Reqs :
        LengthDecided(r) =>
            (RejectedForLength(r) <=>
                 Val(h[r].req).ContentLength < SecretLength + 1)

\* a POST whose wrapper processC2SWrapper would accept (an 8-byte secret),
\* with a content length above the secret floor plus one, rejected for length
C8_Witness ==
    \E r \in Reqs :
        /\ LengthDecided(r)
        /\ RejectedForLength(r)
        /\ Val(h[r].req).ContentLength > regIDLen \div 2 + 1
        /\ Val(h[r].req).Body.wellFormed
        /\ ~ Val(h[r].req).Body.readErr
        /\ len(Unmarshal(Val(h[r].req).Body.wire).SharedSecret) = regIDLen \div 2

\* C9: the transmit never waits; a request whose transmit failed is answered
\* 500; and messageAccepter is called at most once for a request.
C9_SendOnceNoRetry ==
    \A r \in Reqs :
        /\ h[r].calls <= 1
        /\ (alive /\ h[r].pc = "send") =>
               ENABLED (\E ok \in {FALSE} : SendBytes(r, ok))
        /\ (h[r].pc = "done" /\ h[r].sent = Some("EAGAIN")) =>
               h[r].status = StatusInternalServerError /\ h[r].calls = 1

C9_Witness ==
    \E r \in Reqs :
        /\ h[r].pc = "done"
        /\ h[r].sent = Some("EAGAIN")
        /\ h[r].status = StatusInternalServerError

\* C11: a reload that fails (config not decoded, private key not read,
\* AuthStart or ServerAuthCurve failing) ends the process with the mutex
\* held by the reload; from then on nothing happens: no send, no response,
\* no further use of the old or the partly applied configuration.
C11_FailedReloadTerminates ==
    /\ [](listener = "fatal" =>
            /\ ~ alive
            /\ mutex = "reload"
            /\ \A r \in Reqs : ~ Sending(r))
    /\ [][listener = "fatal" => UNCHANGED vars]_vars

\* the reload failed after the new configuration was decoded, while a
\* request waits for the mutex and another has not been answered
C11_Witness ==
    /\ listener = "fatal"
    /\ ~ alive
    /\ sock.port # config.ZMQPort
    /\ \E r \in Reqs : h[r].pc = "lock"

\* C12: no step of a reload changes the port the socket is bound to; the
\* socket of main stays the one in use, whatever ports the reloaded
\* configuration names.
C12_ReloadKeepsSocketBinding == [][sock'.port = sock.port]_vars

\* a reload has completed with a configuration that names another port
C12_Witness ==
    /\ listener = "recv"
    /\ alive
    /\ signals > 0
    /\ config.ZMQPort # sock.port
    /\ config.APIPort = 8081

\* the IP address an address string names, with or without a port; None
\* when it names none
NamedIP(s) ==
    LET hp == SplitHostPort(s)
    IN  IF hp.err THEN ParseIP(s) ELSE ParseIP(hp.host)

\* C13 (as claimed): the client address bytes handed to processC2SWrapper
\* are 16 bytes long for every request address string: the 16-byte form of
\* the address when the string names one, 16 zero bytes when it does not.
C13_ClientAddrIs16Bytes ==
    \A r \in Reqs :
        ~ IsNil(h[r].clientAddrBytes) =>
            LET ip == NamedIP(getRemoteAddr(Val(h[r].req)))
            IN  /\ len(Val(h[r].clientAddrBytes)) = 16
                /\ BytesOf(Val(h[r].clientAddrBytes)) =
                       IF IsNil(ip) THEN [i \in 1..16 |-> 0] ELSE Val(ip)

\* the message of request r that the socket took, decoded
Forwarded(r) == Unmarshal(Val(h[r].zmqPayload))

\* C14 (as claimed): every message the socket took carries a registration
\* source and a registration address that is neither unset nor empty.
C14_ForwardedSourceAndAddressSet ==
    \A r \in Reqs :
        h[r].sent = Some("ok") =>
            /\ ~ IsNil(Forwarded(r).RegistrationSource)
            /\ ~ IsNil(Forwarded(r).RegistrationAddress)
            /\ len(Forwarded(r).RegistrationAddress) > 0

\* C15 (as claimed): for every accepted wrapper the hex digits in the log
\* line are a strict prefix of the hex encoding of the shared secret: fewer
\* digits than the whole encoding.
C15_LogHasStrictPrefixOfSecret ==
    Accepted =>
        LET hexSecret == HexEncode(BytesOf(Val(call.in).SharedSecret))
            logged == Val(Res.logged)[1]
        IN  /\ Len(logged) = regIDLen
            /\ logged = SubSeq(hexSecret, 1, Len(logged))
            /\ Len(logged) < Len(hexSecret)

\* C16: with the auth subsystem as the two-state machine auth_init (FALSE:
\* uninstalled, TRUE: installed), AuthStart is never called while it is
\* installed: every install of a reload comes after that reload's reset.
C16_InstallOnlyWhenUninstalled == listener = "authStart" => ~ auth_init

\* a reload is about to install auth on a socket that had CURVE installed
\* before
C16_Witness ==
    /\ listener = "authStart"
    /\ alive
    /\ sock.curve
    /\ ~ auth_init
    /\ signals = MaxSignals

\* C18: at most one call of loadNewConfig is in progress at any time, and
\* the listener is idle (waiting on signalChan) exactly when every reload
\* begun has returned: Idle -> Reloading -> Idle.
C18_AtMostOneReload ==
    /\ [](reloads.begun - reloads.ended \in {0, 1})
    /\ [](alive => ((listener = "recv") <=> (reloads.begun = reloads.ended)))
    /\ [][/\ reloads'.begun > reloads.begun => listener = "recv"
          /\ listener' = "recv" => listener \in {"recv", "unlock"}]_vars

\* a second trigger arrived while the first reload is in progress: it waits
\* in the buffer and starts nothing
C18_Witness ==
    /\ listener = "setupAuth"
    /\ signals = 2
    /\ signalChan = 1
    /\ reloads = [begun |-> 1, ended |-> 0]

\* C17: when no reload fails, a mutex that is held is released again, a send
\* waiting for the mutex gets it, makes its transmit attempt and returns,
\* and a reload waiting for the mutex gets it and completes.
C17_LockAlwaysReleased ==
    /\ (mutex # "free") ~> (mutex = "free")
    /\ \A r \in Reqs : (h[r].pc = "lock") ~> (h[r].pc = "result")
    /\ (listener = "lock") ~> (listener = "recv")

\* a send and the reload both wait for the mutex that another send holds
C17_Witness ==
    \E r, q \in Reqs :
        /\ h[r].pc = "send"
        /\ mutex = r
        /\ h[q].pc = "lock"
        /\ listener = "lock"

\* C19: a trigger always leaves one trigger pending, never more (a trigger
\* arriving while one is pending is dropped); a pending trigger is eventually
\* taken, and taking it is the beginning of a reload, which so begins after
\* the trigger arrived; reloads begun never outnumber triggers received.
C19_TriggersCoalescedAndServed ==
    /\ [](signalChan \in {0, 1} /\ reloads.begun <= signals)
    /\ [][/\ signals' > signals => signalChan' = 1
          /\ (signalChan' < signalChan) <=> (reloads'.begun = reloads.begun + 1)]_vars
    /\ (signalChan = 1) ~> (signalChan = 0)

\* two triggers arrived before the goroutine received, and the one reload
\* they were coalesced into has begun and completed
C19_Witness ==
    /\ signals = 2
    /\ signalChan = 0
    /\ reloads = [begun |-> 1, ended |-> 1]
    /\ listener = "recv"

\* C20: the call never panics; and for every wrapper whose shared secret has
\* at least regIDLen/2 bytes, the hex encoding of the secret has at least
\* regIDLen digits, so that the slice for the log line is in bounds and the
\* log line carries regIDLen digits.
C20_LogSliceInBounds ==
    Returned =>
        /\ ~ Res.panicked
        /\ (~ IsNil(call.in) /\ len(Val(call.in).SharedSecret) >= regIDLen \div 2) =>
              /\ Len(HexEncode(BytesOf(Val(call.in).SharedSecret))) >= regIDLen
              /\ ~ IsNil(Res.logged)
              /\ Len(Val(Res.logged)[1]) = regIDLen

\* the shortest secret that passes: its encoding has exactly regIDLen digits
C20_Witness ==
    /\ Returned
    /\ ~ IsNil(call.in)
    /\ len(Val(call.in).SharedSecret) = regIDLen \div 2
    /\ BytesOf(Val(call.in).SharedSecret)[1] = 171
    /\ ~ Res.panicked
    /\ Val(Res.logged)[1] = HexEncode(Val(Val(call.in).SharedSecret))
=============================================================================
